---------------------------- MODULE Spec2Model ----------------------------
(***************************************************************************)
(* libopenshot: the DeckLink capture producer (src/DecklinkInput.cpp) and  *)
(* the playback scheduler (src/Qt/PlayerPrivate.cpp).                      *)
(*                                                                         *)
(* The capture part models DeckLinkInputDelegate: the capture thread's     *)
(* VideoInputFrameArrived callback, the OpenMP conversion tasks of a       *)
(* batch, and consumer threads calling GetFrame.  The player part models   *)
(* PlayerPrivate::run (the scheduler thread) and the control thread's      *)
(* Seek / Speed / stop commands.                                           *)
(***************************************************************************)
EXTENDS Integers, Sequences, FiniteSets, TLC

\* ----------------------------------------------------------------- bounds
\* Largest value of OPEN_MP_NUM_PROCESSORS explored by Spec.
MaxProcs == 2
\* Number of signal-bearing raw frames the capture thread delivers in Spec.
MaxArrivals == 4
\* Number of no-input-source callbacks that are logged.
MaxLost == 1
\* Number of GetFrameSafe calls the scheduler makes in SpecPlayer.
MaxTicks == 2
\* 1000.0 / reader->info.fps.ToDouble() in milliseconds (25 fps).
FrameTime == 40
\* Largest position the Audio Worker plays to by itself.
MaxAudioPos == 1
\* References one thread holds on the delegate at a time.
MaxHeld == 1
\* Scenario A of the specification: 20 raw frames, 4 workers.
ScenarioWorkers == 4
ScenarioFrames == 20

\* The threads that call GetFrame.
Consumers == {"c1", "c2"}

Min(a, b) == IF a < b THEN a ELSE b

VARIABLES
    \* ---- DeckLinkInputDelegate
    numProcs,           \* OPEN_MP_NUM_PROCESSORS
    raw_video_frames,   \* deque of copied YUV frames (their arrival index)
    frameCount,         \* sequence counter
    final_frameCount,   \* published count
    final_frames,       \* the cache of converted frames
    number_to_process,  \* local of VideoInputFrameArrived
    prodPc,             \* position of the capture thread in the callback
    tasks,              \* the OpenMP tasks of the running batch (res: CreateVideoFrame result)
    crashed,            \* the process died on a null dereference
    arrived,            \* signal-bearing callbacks so far
    lostSignals,        \* "No input signal detected" lines logged
    deviceFrames,       \* signal-bearing frames the device delivers in this run
    added,              \* history: frame numbers ever passed to final_frames.Add
    attempted,          \* history: ids some GetFrame call has looked up
    delivered,          \* history: per id, the non-empty GetFrame results (capped at 2)
    consumer            \* per consumer thread: its GetFrame call

captureVars == <<numProcs, raw_video_frames, frameCount, final_frameCount,
                 final_frames, number_to_process, prodPc, tasks, crashed,
                 arrived, lostSignals, deviceFrames, added, attempted,
                 delivered, consumer>>

VARIABLES
    \* ---- PlayerPrivate
    video_position,     \* PlayerPrivate::video_position
    audio_position,     \* PlayerPrivate::audio_position
    speed,              \* PlayerPrivate::speed
    has_audio,          \* reader->info.has_audio
    has_video,          \* reader->info.has_video
    runPc,              \* position of the scheduler thread in run()
    shouldExit,         \* the thread's threadShouldExit() flag
    audioRunning,       \* audioPlayback->isThreadRunning()
    videoRunning,       \* videoPlayback->isThreadRunning()
    frame,              \* run()'s frame / videoPlayback->frame
    renderEvent,        \* videoPlayback->render is signalled
    renderedEvent,      \* videoPlayback->rendered is signalled
    audioWorkerPos,     \* what audioPlayback->getCurrentFramePosition() returns
    audioSpeed,         \* the speed last given to audioPlayback->setSpeed
    gfTmp,              \* getFrame: the value of video_position + speed
    gfSpeed,            \* getFrame: the speed it read
    video_frame_diff,   \* run(): local
    sleep_time,         \* run(): local
    seekPc,             \* position of the control thread in Seek()
    seekArg,            \* Seek(): new_position
    forwarded,          \* history: positions this Seek call passed to the Audio Worker
    ticks,              \* history: GetFrameSafe calls made
    pausedTicks,        \* history: paused loop iterations in a row (capped at 2)
    request,            \* history: position and outcome of the last two GetFrameSafe calls
    intervened          \* history: Seek calls against the scheduler's position updates

playerVars == <<video_position, audio_position, speed, has_audio, has_video,
                runPc, shouldExit, audioRunning, videoRunning, frame,
                renderEvent, renderedEvent, audioWorkerPos, audioSpeed, gfTmp, gfSpeed,
                video_frame_diff, sleep_time, seekPc, seekArg, forwarded,
                ticks, pausedTicks, request, intervened>>

VARIABLES
    \* ---- DeckLinkInputDelegate as a COM object
    m_refCount,         \* DeckLinkInputDelegate::m_refCount
    destroyed,          \* history: times "delete this" ran (capped at 2)
    holder              \* per thread: its AddRef / Release call and references

refVars == <<m_refCount, destroyed, holder>>

vars == <<captureVars, playerVars, refVars>>

\* ------------------------------------------------------------ the cache
\* A converted frame: openshot::Frame(copy_frameCount, ...) built from one
\* raw frame.  NoFrame is the empty shared_ptr.
Frame(n, r) == [number |-> n, raw |-> r]
NoFrame == [number |-> -1, raw |-> -1]

CacheExists(cache, n) == \E f \in cache : f.number = n
CacheGetFrame(cache, n) == CHOOSE f \in cache : f.number = n
CacheRemove(cache, n) == {f \in cache : f.number # n}
CacheAdd(cache, f) == CacheRemove(cache, f.number) \cup {f}

\* ------------------------------------------------ DeckLinkInputDelegate
GetCurrentFrameNumber_NoMinusOne == final_frameCount

GetCurrentFrameNumber ==
    IF final_frameCount > 0 THEN final_frameCount - 1 ELSE 0

IdleConsumer == [pc |-> "idle", requested_frame |-> -1, f |-> NoFrame,
                 early |-> FALSE, published |-> FALSE, first |-> FALSE]

InitCapture(procs, frames) ==
    /\ numProcs \in procs
    /\ deviceFrames = frames
    /\ raw_video_frames = <<>>
    /\ frameCount = 0
    /\ final_frameCount = 0
    /\ final_frames = {}
    /\ number_to_process = 0
    /\ prodPc = "idle"
    /\ tasks = {}
    /\ crashed = FALSE
    /\ arrived = 0
    /\ lostSignals = 0
    /\ added = {}
    /\ attempted = {}
    /\ delivered = [i \in 0..(frames - 1) |-> 0]
    /\ consumer = [c \in Consumers |-> IdleConsumer]

\* Outcomes of a CreateVideoFrame call whose result is not S_OK: the frame
\* pointer stays NULL and is dereferenced, so the process dies on the null
\* call, or the build carries on past it.
FailureOutcomes == {"crash", "continue"}

\* VideoInputFrameArrived(NULL, ...): nothing is done.
ArriveNoVideo ==
    /\ ~crashed /\ prodPc = "idle"
    /\ UNCHANGED vars

ArriveNoSignal_TakesNumber ==
    /\ ~crashed /\ prodPc = "idle"
    /\ lostSignals < MaxLost
    /\ lostSignals' = lostSignals + 1
    /\ frameCount' = frameCount + 1
    /\ UNCHANGED <<refVars, playerVars, numProcs, raw_video_frames, final_frameCount,
                   final_frames, number_to_process, prodPc, tasks, crashed,
                   arrived, deviceFrames, added, attempted, delivered, consumer>>

\* VideoInputFrameArrived with bmdFrameHasNoInputSource: the loss is logged.
ArriveNoSignal ==
    /\ ~crashed /\ prodPc = "idle"
    /\ lostSignals < MaxLost
    /\ lostSignals' = lostSignals + 1
    /\ UNCHANGED <<refVars, playerVars, numProcs, raw_video_frames, frameCount, final_frameCount,
                   final_frames, number_to_process, prodPc, tasks, crashed,
                   arrived, deviceFrames, added, attempted, delivered, consumer>>

\* VideoInputFrameArrived with a signal: the YUV copy is queued and, once the
\* queue holds OPEN_MP_NUM_PROCESSORS frames, the parallel region is entered.
ArriveSignal ==
    /\ ~crashed /\ prodPc = "idle"
    /\ arrived < deviceFrames
    /\ raw_video_frames' = Append(raw_video_frames, arrived)
    /\ arrived' = arrived + 1
    /\ number_to_process' = Len(raw_video_frames')
    /\ prodPc' = IF number_to_process' >= numProcs THEN "single" ELSE "idle"
    /\ UNCHANGED <<refVars, playerVars, numProcs, frameCount, final_frameCount, final_frames, tasks,
                   crashed, lostSignals, deviceFrames, added, attempted,
                   delivered, consumer>>

\* The unchecked CreateVideoFrame of the YUV copy fails: m_yuvFrame is NULL
\* and m_yuvFrame->GetBytes is called on it.
ArriveCopyFails ==
    /\ ~crashed /\ prodPc = "idle"
    /\ arrived < deviceFrames
    /\ crashed' = TRUE
    /\ UNCHANGED <<refVars, playerVars, numProcs, raw_video_frames, frameCount, final_frameCount,
                   final_frames, number_to_process, prodPc, tasks, arrived,
                   lostSignals, deviceFrames, added, attempted, delivered,
                   consumer>>

\* One iteration of the while loop in the omp single block: pop the front
\* frame, create its task with the current frameCount, increment frameCount.
Dispatch_SharedCounter ==
    /\ ~crashed /\ prodPc = "single"
    /\ raw_video_frames # <<>>
    /\ tasks' = tasks \cup {[frame |-> Head(raw_video_frames),
                             copy_frameCount |-> final_frameCount,
                             st |-> "created", res |-> "S_OK"]}
    /\ raw_video_frames' = Tail(raw_video_frames)
    /\ frameCount' = frameCount + 1
    /\ prodPc' = IF raw_video_frames' = <<>> THEN "barrier" ELSE "single"
    /\ UNCHANGED <<refVars, playerVars, numProcs, final_frameCount, final_frames, number_to_process,
                   crashed, arrived, lostSignals, deviceFrames, added,
                   attempted, delivered, consumer>>

Dispatch ==
    /\ ~crashed /\ prodPc = "single"
    /\ raw_video_frames # <<>>
    /\ tasks' = tasks \cup {[frame |-> Head(raw_video_frames),
                             copy_frameCount |-> frameCount,
                             st |-> "created", res |-> "S_OK"]}
    /\ raw_video_frames' = Tail(raw_video_frames)
    /\ frameCount' = frameCount + 1
    /\ prodPc' = IF raw_video_frames' = <<>> THEN "barrier" ELSE "single"
    /\ UNCHANGED <<refVars, playerVars, numProcs, final_frameCount, final_frames, number_to_process,
                   crashed, arrived, lostSignals, deviceFrames, added,
                   attempted, delivered, consumer>>

\* A task up to the critical section: CreateVideoFrame for the RGB frame,
\* ConvertFrame, GetBytes, and the construction of the openshot::Frame.
TaskConvert(t) ==
    /\ ~crashed /\ t \in tasks /\ t.st = "created"
    /\ \/ /\ tasks' = (tasks \ {t}) \cup {[t EXCEPT !.st = "converted"]}
          /\ UNCHANGED crashed
       \/ \E o \in FailureOutcomes :
            /\ crashed' = (o = "crash")
            /\ tasks' = (tasks \ {t}) \cup
                           {[t EXCEPT !.res = "E_FAIL",
                                      !.st = IF o = "crash" THEN "created"
                                             ELSE "converted"]}
    /\ UNCHANGED <<refVars, playerVars, numProcs, raw_video_frames, frameCount, final_frameCount,
                   final_frames, number_to_process, prodPc, arrived,
                   lostSignals, deviceFrames, added, attempted, delivered,
                   consumer>>

\* The task's critical section final_frames.Add(f), then the releases.
TaskAdd_NoInsert(t) ==
    /\ ~crashed /\ t \in tasks /\ t.st = "converted"
    /\ tasks' = (tasks \ {t}) \cup {[t EXCEPT !.st = "done"]}
    /\ UNCHANGED <<refVars, playerVars, numProcs, raw_video_frames, frameCount, final_frameCount,
                   final_frames, added, number_to_process, prodPc, crashed,
                   arrived, lostSignals, deviceFrames, attempted, delivered,
                   consumer>>

TaskAdd_NumberOnCompletion(t) ==
    /\ ~crashed /\ t \in tasks /\ t.st = "converted"
    /\ final_frames' = CacheAdd(final_frames, Frame(Cardinality(added), t.frame))
    /\ added' = added \cup {Cardinality(added)}
    /\ tasks' = (tasks \ {t}) \cup {[t EXCEPT !.st = "done"]}
    /\ UNCHANGED <<refVars, playerVars, numProcs, raw_video_frames, frameCount, final_frameCount,
                   number_to_process, prodPc, crashed, arrived, lostSignals,
                   deviceFrames, attempted, delivered, consumer>>

TaskAdd(t) ==
    /\ ~crashed /\ t \in tasks /\ t.st = "converted"
    /\ final_frames' = CacheAdd(final_frames, Frame(t.copy_frameCount, t.frame))
    /\ added' = added \cup {t.copy_frameCount}
    /\ tasks' = (tasks \ {t}) \cup {[t EXCEPT !.st = "done"]}
    /\ UNCHANGED <<refVars, playerVars, numProcs, raw_video_frames, frameCount, final_frameCount,
                   number_to_process, prodPc, crashed, arrived, lostSignals,
                   deviceFrames, attempted, delivered, consumer>>

\* The end of the parallel region: every task of the batch has finished.
BatchDone == \A t \in tasks : t.st = "done"

\* final_frameCount += number_to_process, after the parallel region.
Publish_PerFrame ==
    /\ ~crashed /\ prodPc = "barrier"
    /\ \E t \in tasks : t.st = "done"
    /\ final_frameCount' = final_frameCount + 1
    /\ \E t \in tasks :
         /\ t.st = "done"
         /\ tasks' = tasks \ {t}
         /\ prodPc' = IF tasks' = {} THEN "idle" ELSE "barrier"
    /\ UNCHANGED <<refVars, playerVars, numProcs, raw_video_frames, frameCount, final_frames,
                   number_to_process, crashed, arrived, lostSignals,
                   deviceFrames, added, attempted, delivered, consumer>>

Publish ==
    /\ ~crashed /\ prodPc = "barrier"
    /\ BatchDone
    /\ final_frameCount' = final_frameCount + number_to_process
    /\ tasks' = {}
    /\ prodPc' = "idle"
    /\ UNCHANGED <<refVars, playerVars, numProcs, raw_video_frames, frameCount, final_frames,
                   number_to_process, crashed, arrived, lostSignals,
                   deviceFrames, added, attempted, delivered, consumer>>

consumerRest == <<refVars, playerVars, numProcs, raw_video_frames, frameCount, final_frameCount,
                  number_to_process, prodPc, tasks, crashed, arrived,
                  lostSignals, deviceFrames, added>>

\* A consumer thread enters GetFrame(n).
GetFrameCall(c, n) ==
    /\ ~crashed /\ consumer[c].pc = "idle"
    /\ consumer' = [consumer EXCEPT ![c] =
                      [IdleConsumer EXCEPT !.pc = "wait",
                                           !.requested_frame = n,
                                           !.early = (final_frameCount <= n)]]
    /\ UNCHANGED <<consumerRest, final_frames, attempted, delivered>>

\* while (requested_frame > GetCurrentFrameNumber()) usleep(500);
GetFrameSleep(c) ==
    /\ ~crashed /\ consumer[c].pc = "wait"
    /\ consumer[c].requested_frame > GetCurrentFrameNumber
    /\ UNCHANGED vars

GetFrameReady(c) ==
    /\ ~crashed /\ consumer[c].pc = "wait"
    /\ ~(consumer[c].requested_frame > GetCurrentFrameNumber)
    /\ consumer' = [consumer EXCEPT ![c].pc = "critical"]
    /\ UNCHANGED <<consumerRest, final_frames, attempted, delivered>>

\* The critical section of GetFrame: Exists / GetFrame / Remove, or the
\* "Can't find" dump.
GetFrameCritical_NoRemove(c) ==
    LET n == consumer[c].requested_frame
        hit == CacheExists(final_frames, n)
        got == IF hit THEN CacheGetFrame(final_frames, n) ELSE NoFrame
    IN  /\ ~crashed /\ consumer[c].pc = "critical"
        /\ final_frames' = final_frames
        /\ consumer' = [consumer EXCEPT ![c].pc = "returned", ![c].f = got,
                          ![c].published = (final_frameCount > n),
                          ![c].first = (n \notin attempted)]
        /\ attempted' = attempted \cup {n}
        /\ delivered' = IF hit THEN [delivered EXCEPT ![n] = Min(@ + 1, 2)]
                       ELSE delivered
        /\ UNCHANGED consumerRest

GetFrameCritical_MissClears(c) ==
    LET n == consumer[c].requested_frame
        hit == CacheExists(final_frames, n)
        got == IF hit THEN CacheGetFrame(final_frames, n) ELSE NoFrame
    IN  /\ ~crashed /\ consumer[c].pc = "critical"
        /\ final_frames' = IF hit THEN CacheRemove(final_frames, n) ELSE {}
        /\ consumer' = [consumer EXCEPT ![c].pc = "returned", ![c].f = got,
                          ![c].published = (final_frameCount > n),
                          ![c].first = (n \notin attempted)]
        /\ attempted' = attempted \cup {n}
        /\ delivered' = IF hit THEN [delivered EXCEPT ![n] = Min(@ + 1, 2)]
                       ELSE delivered
        /\ UNCHANGED consumerRest

GetFrameCritical(c) ==
    LET n == consumer[c].requested_frame
        hit == CacheExists(final_frames, n)
        got == IF hit THEN CacheGetFrame(final_frames, n) ELSE NoFrame
    IN  /\ ~crashed /\ consumer[c].pc = "critical"
        /\ final_frames' = IF hit THEN CacheRemove(final_frames, n)
                           ELSE final_frames
        /\ consumer' = [consumer EXCEPT ![c].pc = "returned", ![c].f = got,
                          ![c].published = (final_frameCount > n),
                          ![c].first = (n \notin attempted)]
        /\ attempted' = attempted \cup {n}
        /\ delivered' = IF hit THEN [delivered EXCEPT ![n] = Min(@ + 1, 2)]
                       ELSE delivered
        /\ UNCHANGED consumerRest

\* The caller takes the result; the thread is free for its next call.
GetFrameReturn(c) ==
    /\ ~crashed /\ consumer[c].pc = "returned"
    /\ consumer' = [consumer EXCEPT ![c] = IdleConsumer]
    /\ UNCHANGED <<consumerRest, final_frames, attempted, delivered>>

\* ------------------------------------------------------ AddRef / Release
\* Threads that hold references to the delegate.
Holders == {"h1", "h2", "h3"}

\* What a read of m_refCount can give once the object has been deleted: the
\* stale zero, or whatever now lives there.
FreedReads == {0, 1}

IdleHolder(n) == [pc |-> "idle", held |-> n, after |-> -1, seen |-> -1,
                  deleted |-> FALSE]

InitRefCount ==
    /\ m_refCount = 0
    /\ destroyed = 0
    /\ holder = [h \in Holders |-> IdleHolder(0)]

\* A thread can reach the object through a reference somebody holds, or
\* because it has just constructed it.
Reachable ==
    /\ destroyed = 0
    /\ \/ \E h \in Holders : holder[h].held > 0
       \/ m_refCount = 0 /\ \A h \in Holders : holder[h].pc = "idle"

\* The value a thread reads from m_refCount without holding the mutex.
UnlockedReads == IF destroyed > 0 THEN FreedReads ELSE {m_refCount}

\* AddRef: the increment under the mutex.
AddRefLocked(h) ==
    /\ holder[h].pc = "idle" /\ Reachable
    /\ holder[h].held < MaxHeld
    /\ m_refCount' = m_refCount + 1
    /\ holder' = [holder EXCEPT ![h].pc = "addref_return", ![h].held = @ + 1]
    /\ UNCHANGED <<captureVars, playerVars, destroyed>>

\* AddRef: return (ULONG)m_refCount, read after the unlock.
AddRefReturn(h) ==
    /\ holder[h].pc = "addref_return"
    /\ \E v \in UnlockedReads :
         holder' = [holder EXCEPT ![h] = [IdleHolder(holder[h].held)
                                            EXCEPT !.seen = v]]
    /\ UNCHANGED <<captureVars, playerVars, m_refCount, destroyed>>

\* Release: the decrement under the mutex.
ReleaseLocked(h) ==
    /\ holder[h].pc = "idle" /\ holder[h].held > 0
    /\ m_refCount' = m_refCount - 1
    /\ holder' = [holder EXCEPT ![h].pc = "release_test",
                                ![h].held = @ - 1,
                                ![h].after = m_refCount']
    /\ UNCHANGED <<captureVars, playerVars, destroyed>>

\* Release: if (m_refCount == 0) delete this, read after the unlock.
ReleaseTest(h) ==
    /\ holder[h].pc = "release_test"
    /\ \E v \in UnlockedReads :
         /\ holder' = [holder EXCEPT ![h].pc = "released", ![h].seen = v,
                                     ![h].deleted = (v = 0)]
         /\ destroyed' = IF v = 0 THEN Min(destroyed + 1, 2) ELSE destroyed
    /\ UNCHANGED <<captureVars, playerVars, m_refCount>>

\* Release has returned to its caller.
ReleaseReturn(h) ==
    /\ holder[h].pc = "released"
    /\ holder' = [holder EXCEPT ![h] = IdleHolder(holder[h].held)]
    /\ UNCHANGED <<captureVars, playerVars, m_refCount, destroyed>>

\* --------------------------------------------------------- PlayerPrivate
\* A frame returned by reader->GetFrameSafe(position).
ReaderFrame(pos) == [number |-> pos, raw |-> 0]

\* What GetFrameSafe does: return a frame, or throw one of the three
\* exceptions getFrame() catches.
ReaderOutcomes == {"frame", "ReaderClosed", "TooManySeeks", "OutOfBoundsFrame"}
ReaderFailures == ReaderOutcomes \ {"frame"}

\* Inputs of the control thread and of the clock.
SpeedValues == {-1, 0, 1}
SeekValues == {-1, 0, 2}
RenderTimes == {0, FrameTime, 3 * FrameTime}

\* History of the GetFrameSafe calls: the position asked for and whether the
\* call threw, whether the call before it threw, and whether no Seek wrote
\* video_position between the two calls' position updates.
NoRequest == [pos |-> 0, failed |-> FALSE, prevFailed |-> FALSE,
              clean |-> FALSE]

\* The constructor, and Reader(new_reader) with the reader's capabilities.
InitPlayer(caps) ==
    /\ video_position = 0
    /\ audio_position = 0
    /\ speed = 1
    /\ has_audio \in caps
    /\ has_video \in caps
    /\ runPc = "stopped"
    /\ shouldExit = FALSE
    /\ audioRunning = FALSE
    /\ videoRunning = FALSE
    /\ frame = NoFrame
    /\ renderEvent = FALSE
    /\ renderedEvent = FALSE
    /\ audioWorkerPos = 0
    /\ audioSpeed = 1
    /\ gfTmp = 0
    /\ gfSpeed = 0
    /\ video_frame_diff = 0
    /\ sleep_time = 0
    /\ seekPc = "idle"
    /\ seekArg = 0
    /\ forwarded = <<>>
    /\ ticks = 0
    /\ pausedTicks = 0
    /\ request = NoRequest
    /\ intervened = [sinceWrite |-> FALSE, tick |-> FALSE,
                     returned |-> 0, armed |-> 0]

ThreadRunning == runPc \notin {"stopped", "done"}

\* The control thread makes one call at a time: seekPc = "idle" says it is
\* not inside Seek().
\* startPlayback(): refuses a negative position, stops a running thread
\* (stopPlayback(-1) waits for it to exit), then starts run().
StartPlayback ==
    /\ seekPc = "idle"
    /\ video_position >= 0
    /\ ~ThreadRunning
    /\ runPc' = "start"
    /\ shouldExit' = FALSE
    /\ UNCHANGED <<refVars, captureVars, video_position, audio_position, speed,
                   has_audio, has_video, audioRunning, videoRunning,
                   frame, renderEvent, renderedEvent, audioWorkerPos,
                   audioSpeed, gfTmp, gfSpeed, video_frame_diff,
                   sleep_time, seekPc, seekArg, forwarded, ticks,
                   pausedTicks, request, intervened>>

\* stopPlayback(): stopThread() raises the thread's exit flag.
StopPlayback ==
    /\ seekPc = "idle"
    /\ ThreadRunning
    /\ ~shouldExit
    /\ shouldExit' = TRUE
    /\ UNCHANGED <<refVars, captureVars, video_position, audio_position, speed,
                   has_audio, has_video, runPc, audioRunning,
                   videoRunning, frame, renderEvent, renderedEvent,
                   audioWorkerPos, audioSpeed, gfTmp, gfSpeed,
                   video_frame_diff, sleep_time, seekPc, seekArg,
                   forwarded, ticks, pausedTicks, request, intervened>>

\* run(), before the loop: stop the workers that run, start the Audio Worker
\* if the source has audio and the Video Render Worker if it has video.
RunStart ==
    /\ runPc = "start"
    /\ audioRunning' = IF has_audio THEN TRUE ELSE audioRunning
    /\ videoRunning' = IF has_video THEN TRUE ELSE videoRunning
    /\ runPc' = "loop"
    /\ UNCHANGED <<refVars, captureVars, video_position, audio_position, speed,
                   has_audio, has_video, shouldExit, frame, renderEvent,
                   renderedEvent, audioWorkerPos, audioSpeed, gfTmp,
                   gfSpeed, video_frame_diff, sleep_time, seekPc,
                   seekArg, forwarded, ticks, pausedTicks, request,
                   intervened>>

\* while (!threadShouldExit())
RunLoopCheck ==
    /\ runPc = "loop"
    /\ runPc' = IF shouldExit THEN "exit" ELSE "tick"
    /\ video_frame_diff' = 0
    /\ sleep_time' = 0
    /\ intervened' =
         [intervened EXCEPT !.returned = 0,
                            !.armed = IF intervened.returned # 0
                                      THEN intervened.returned
                                      ELSE IF pausedTicks > 0 THEN @ ELSE 0]
    /\ UNCHANGED <<refVars, captureVars, video_position, audio_position, speed,
                   has_audio, has_video, shouldExit, audioRunning,
                   videoRunning, frame, renderEvent, renderedEvent,
                   audioWorkerPos, audioSpeed, gfTmp, gfSpeed, seekPc,
                   seekArg, forwarded, ticks, pausedTicks, request>>

\* if (speed == 0) { sleep(frame_time); continue; }
RunTick_NoContinue ==
    /\ runPc = "tick"
    /\ runPc' = "gf_read"
    /\ pausedTicks' = IF speed = 0 THEN Min(pausedTicks + 1, 2) ELSE 0
    /\ UNCHANGED <<refVars, captureVars, video_position, audio_position, speed,
                   has_audio, has_video, shouldExit, audioRunning,
                   videoRunning, frame, renderEvent, renderedEvent,
                   audioWorkerPos, audioSpeed, gfTmp, gfSpeed,
                   video_frame_diff, sleep_time, seekPc, seekArg,
                   forwarded, ticks, request, intervened>>

RunTick ==
    /\ runPc = "tick"
    /\ runPc' = IF speed = 0 THEN "loop" ELSE "gf_read"
    /\ pausedTicks' = IF speed = 0 THEN Min(pausedTicks + 1, 2) ELSE 0
    /\ UNCHANGED <<refVars, captureVars, video_position, audio_position, speed,
                   has_audio, has_video, shouldExit, audioRunning,
                   videoRunning, frame, renderEvent, renderedEvent,
                   audioWorkerPos, audioSpeed, gfTmp, gfSpeed,
                   video_frame_diff, sleep_time, seekPc, seekArg,
                   forwarded, ticks, request, intervened>>

\* getFrame(): video_position = video_position + speed, the reads ...
RunGetFrameRead ==
    /\ runPc = "gf_read"
    /\ ticks < MaxTicks
    /\ gfTmp' = video_position + speed
    /\ gfSpeed' = speed
    /\ runPc' = "gf_write"
    /\ UNCHANGED <<refVars, captureVars, video_position, audio_position, speed,
                   has_audio, has_video, shouldExit, audioRunning,
                   videoRunning, frame, renderEvent, renderedEvent,
                   audioWorkerPos, audioSpeed, video_frame_diff,
                   sleep_time, seekPc, seekArg, forwarded, ticks,
                   pausedTicks, request, intervened>>

\* ... and the write.
RunGetFrameWrite ==
    /\ runPc = "gf_write"
    /\ video_position' = gfTmp
    /\ intervened' = [intervened EXCEPT !.sinceWrite = FALSE,
                                        !.tick = intervened.sinceWrite]
    /\ runPc' = "gf_call"
    /\ UNCHANGED <<refVars, captureVars, audio_position, speed, has_audio,
                   has_video, shouldExit, audioRunning, videoRunning,
                   frame, renderEvent, renderedEvent, audioWorkerPos,
                   audioSpeed, gfTmp, gfSpeed, video_frame_diff,
                   sleep_time, seekPc, seekArg, forwarded, ticks,
                   pausedTicks, request>>

\* No Seek wrote video_position since the position update of the tick before.
NoSeekSinceLastCall == ~(intervened.tick \/ intervened.sinceWrite)

\* getFrame(): reader->GetFrameSafe(video_position) and the catch clauses.
\* video_position is read without synchronisation: the argument is the
\* value just stored or the one now in memory.
RunGetFrameCall_Rollback ==
    /\ runPc = "gf_call"
    /\ \E pos \in {gfTmp, video_position}, o \in ReaderOutcomes :
         /\ request' = [pos |-> pos, failed |-> (o \in ReaderFailures),
                        prevFailed |-> request.failed,
                        clean |-> NoSeekSinceLastCall]
         /\ frame' = IF o = "frame" THEN ReaderFrame(pos) ELSE NoFrame
         /\ video_position' = IF o = "frame" THEN video_position
                              ELSE video_position - gfSpeed
    /\ ticks' = ticks + 1
    /\ gfTmp' = 0
    /\ gfSpeed' = 0
    /\ runPc' = "render_signal"
    /\ UNCHANGED <<refVars, captureVars, audio_position, speed, has_audio,
                   has_video, shouldExit, audioRunning, videoRunning,
                   renderEvent, renderedEvent, audioWorkerPos,
                   audioSpeed, video_frame_diff, sleep_time, seekPc,
                   seekArg, forwarded, pausedTicks, intervened>>

RunGetFrameCall ==
    /\ runPc = "gf_call"
    /\ \E pos \in {gfTmp, video_position}, o \in ReaderOutcomes :
         /\ request' = [pos |-> pos, failed |-> (o \in ReaderFailures),
                        prevFailed |-> request.failed,
                        clean |-> NoSeekSinceLastCall]
         /\ frame' = IF o = "frame" THEN ReaderFrame(pos) ELSE NoFrame
    /\ ticks' = ticks + 1
    /\ gfTmp' = 0
    /\ gfSpeed' = 0
    /\ runPc' = "render_signal"
    /\ UNCHANGED <<refVars, captureVars, video_position, audio_position, speed,
                   has_audio, has_video, shouldExit, audioRunning,
                   videoRunning, renderEvent, renderedEvent,
                   audioWorkerPos, audioSpeed, video_frame_diff,
                   sleep_time, seekPc, seekArg, forwarded, pausedTicks,
                   intervened>>

\* videoPlayback->frame = frame; videoPlayback->render.signal();
RunRenderSignal ==
    /\ runPc = "render_signal"
    /\ renderEvent' = TRUE
    /\ runPc' = "render_wait"
    /\ UNCHANGED <<refVars, captureVars, video_position, audio_position, speed,
                   has_audio, has_video, shouldExit, audioRunning,
                   videoRunning, frame, renderedEvent, audioWorkerPos,
                   audioSpeed, gfTmp, gfSpeed, video_frame_diff,
                   sleep_time, seekPc, seekArg, forwarded, ticks,
                   pausedTicks, request, intervened>>

\* videoPlayback->rendered.wait();
RunRenderWait ==
    /\ runPc = "render_wait"
    /\ renderedEvent
    /\ renderedEvent' = FALSE
    /\ runPc' = "sync"
    /\ UNCHANGED <<refVars, captureVars, video_position, audio_position, speed,
                   has_audio, has_video, shouldExit, audioRunning,
                   videoRunning, frame, renderEvent, audioWorkerPos,
                   audioSpeed, gfTmp, gfSpeed, video_frame_diff,
                   sleep_time, seekPc, seekArg, forwarded, ticks,
                   pausedTicks, request, intervened>>

\* The unbraced if: only the read of the Audio Worker's position depends on
\* the capabilities; video_frame_diff is computed in every tick.
RunSync ==
    /\ runPc = "sync"
    /\ audio_position' = IF has_audio /\ has_video THEN audioWorkerPos
                         ELSE audio_position
    /\ video_frame_diff' = video_position - audio_position'
    /\ runPc' = "sleep"
    /\ UNCHANGED <<refVars, captureVars, video_position, speed, has_audio,
                   has_video, shouldExit, audioRunning, videoRunning,
                   frame, renderEvent, renderedEvent, audioWorkerPos,
                   audioSpeed, gfTmp, gfSpeed, sleep_time, seekPc,
                   seekArg, forwarded, ticks, pausedTicks, request,
                   intervened>>

\* sleep_time = int(frame_time - render_time), the drift adjustment, and
\* the sleep.
SleepTime(render_time) ==
    IF video_frame_diff > 0 /\ has_audio /\ has_video
    THEN (FrameTime - render_time) + video_frame_diff * FrameTime
    ELSE FrameTime - render_time

RunSleep ==
    /\ runPc = "sleep"
    /\ \E render_time \in RenderTimes : sleep_time' = SleepTime(render_time)
    /\ runPc' = "loop"
    /\ UNCHANGED <<refVars, captureVars, video_position, audio_position, speed,
                   has_audio, has_video, shouldExit, audioRunning,
                   videoRunning, frame, renderEvent, renderedEvent,
                   audioWorkerPos, audioSpeed, gfTmp, gfSpeed,
                   video_frame_diff, seekPc, seekArg, forwarded, ticks,
                   pausedTicks, request, intervened>>

\* run(), after the loop: stop the workers that run and whose stream the
\* source has.
RunExit ==
    /\ runPc = "exit"
    /\ audioRunning' = IF audioRunning /\ has_audio THEN FALSE ELSE audioRunning
    /\ videoRunning' = IF videoRunning /\ has_video THEN FALSE ELSE videoRunning
    /\ runPc' = "done"
    /\ UNCHANGED <<refVars, captureVars, video_position, audio_position, speed,
                   has_audio, has_video, shouldExit, frame, renderEvent,
                   renderedEvent, audioWorkerPos, audioSpeed, gfTmp,
                   gfSpeed, video_frame_diff, sleep_time, seekPc,
                   seekArg, forwarded, ticks, pausedTicks, request,
                   intervened>>

\* The Video Render Worker: on "render ready" it paints videoPlayback->frame
\* and signals "render complete".
VideoWorkerRender ==
    /\ videoRunning
    /\ renderEvent
    /\ renderEvent' = FALSE
    /\ renderedEvent' = TRUE
    /\ UNCHANGED <<refVars, captureVars, video_position, audio_position, speed,
                   has_audio, has_video, runPc, shouldExit, audioRunning,
                   videoRunning, frame, audioWorkerPos, audioSpeed,
                   gfTmp, gfSpeed, video_frame_diff, sleep_time, seekPc,
                   seekArg, forwarded, ticks, pausedTicks, request,
                   intervened>>

\* The Audio Worker plays on by itself.
AudioWorkerAdvance ==
    /\ audioRunning
    /\ audioWorkerPos < MaxAudioPos
    /\ audioWorkerPos' = audioWorkerPos + 1
    /\ UNCHANGED <<refVars, captureVars, video_position, audio_position, speed,
                   has_audio, has_video, runPc, shouldExit, audioRunning,
                   videoRunning, frame, renderEvent, renderedEvent,
                   audioSpeed, gfTmp, gfSpeed, video_frame_diff,
                   sleep_time, seekPc, seekArg, forwarded, ticks,
                   pausedTicks, request, intervened>>

\* Seek(new_position): the test and the write of video_position ...
SeekCall(p) ==
    /\ seekPc = "idle"
    /\ seekArg' = p
    /\ forwarded' = <<>>
    /\ IF p > 0
       THEN /\ video_position' = p
            /\ intervened' = [intervened EXCEPT !.sinceWrite = TRUE,
                                                !.returned = 0, !.armed = 0]
            /\ seekPc' = "written"
       ELSE /\ UNCHANGED <<video_position, intervened>>
            /\ seekPc' = "returned"
    /\ UNCHANGED <<refVars, captureVars, audio_position, speed, has_audio,
                   has_video, runPc, shouldExit, audioRunning,
                   videoRunning, frame, renderEvent, renderedEvent,
                   audioWorkerPos, audioSpeed, gfTmp, gfSpeed,
                   video_frame_diff, sleep_time, ticks, pausedTicks,
                   request>>

\* ... and audioPlayback->Seek(video_position): video_position is read
\* without synchronisation, so the argument is the value just stored or the
\* one now in memory.
SeekForward ==
    /\ seekPc = "written"
    /\ \E v \in {seekArg, video_position} :
         /\ forwarded' = Append(forwarded, v)
         /\ audioWorkerPos' = v
    /\ seekPc' = "returned"
    /\ intervened' = [intervened EXCEPT !.returned = seekArg]
    /\ UNCHANGED <<refVars, captureVars, video_position, audio_position, speed,
                   has_audio, has_video, runPc, shouldExit, audioRunning,
                   videoRunning, frame, renderEvent, renderedEvent,
                   audioSpeed, gfTmp, gfSpeed, video_frame_diff,
                   sleep_time, seekArg, ticks, pausedTicks, request>>

SeekReturn ==
    /\ seekPc = "returned"
    /\ seekPc' = "idle"
    /\ seekArg' = 0
    /\ forwarded' = <<>>
    /\ UNCHANGED <<refVars, captureVars, video_position, audio_position, speed,
                   has_audio, has_video, runPc, shouldExit, audioRunning,
                   videoRunning, frame, renderEvent, renderedEvent,
                   audioWorkerPos, audioSpeed, gfTmp, gfSpeed,
                   video_frame_diff, sleep_time, ticks, pausedTicks,
                   request, intervened>>

\* Speed(new_speed)
Speed(new_speed) ==
    /\ seekPc = "idle"
    /\ speed' = new_speed
    /\ audioSpeed' = IF has_audio THEN new_speed ELSE audioSpeed
    /\ UNCHANGED <<refVars, captureVars, video_position, audio_position,
                   has_audio, has_video, runPc, shouldExit, audioRunning,
                   videoRunning, frame, renderEvent, renderedEvent,
                   audioWorkerPos, gfTmp, gfSpeed, video_frame_diff,
                   sleep_time, seekPc, seekArg, forwarded, ticks,
                   pausedTicks, request, intervened>>

\* Reader(new_reader): the source is replaced; the new one may have other
\* streams.
Reader(new_audio, new_video) ==
    /\ seekPc = "idle"
    /\ has_audio' = new_audio
    /\ has_video' = new_video
    /\ UNCHANGED <<refVars, captureVars, video_position, audio_position,
                   speed, runPc, shouldExit, audioRunning, videoRunning,
                   frame, renderEvent, renderedEvent, audioWorkerPos,
                   audioSpeed, gfTmp, gfSpeed, video_frame_diff, sleep_time,
                   seekPc, seekArg, forwarded, ticks, pausedTicks, request,
                   intervened>>

InitP == InitCapture({1}, 0) /\ InitPlayer(BOOLEAN) /\ InitRefCount

NextPlayer ==
    \/ StartPlayback
    \/ StopPlayback
    \/ RunStart
    \/ RunLoopCheck
    \/ RunTick
    \/ RunGetFrameRead
    \/ RunGetFrameWrite
    \/ RunGetFrameCall
    \/ RunRenderSignal
    \/ RunRenderWait
    \/ RunSync
    \/ RunSleep
    \/ RunExit
    \/ VideoWorkerRender
    \/ AudioWorkerAdvance
    \/ \E p \in SeekValues : SeekCall(p)
    \/ SeekForward
    \/ SeekReturn
    \/ \E s \in SpeedValues : Speed(s)

SpecPlayer == InitP /\ [][NextPlayer]_vars

\* Playback at the initial speed while the control thread starts, stops and
\* replaces the source.
NextReader ==
    \/ StartPlayback
    \/ StopPlayback
    \/ RunStart
    \/ RunLoopCheck
    \/ RunTick
    \/ RunGetFrameRead
    \/ RunGetFrameWrite
    \/ RunGetFrameCall
    \/ RunRenderSignal
    \/ RunRenderWait
    \/ RunSync
    \/ RunSleep
    \/ RunExit
    \/ VideoWorkerRender
    \/ AudioWorkerAdvance
    \/ \E a, v \in BOOLEAN : Reader(a, v)

SpecReader == InitP /\ [][NextReader]_vars

\* ------------------------------------------------------- specifications
Init ==
    InitCapture(1..MaxProcs, MaxArrivals) /\ InitPlayer({TRUE}) /\ InitRefCount

Next ==
    \/ ArriveNoVideo
    \/ ArriveNoSignal
    \/ ArriveSignal
    \/ ArriveCopyFails
    \/ Dispatch
    \/ \E t \in tasks : TaskConvert(t)
    \/ \E t \in tasks : TaskAdd(t)
    \/ Publish
    \/ \E c \in Consumers, n \in 0..(deviceFrames - 1) : GetFrameCall(c, n)
    \/ \E c \in Consumers : GetFrameSleep(c)
    \/ \E c \in Consumers : GetFrameReady(c)
    \/ \E c \in Consumers : GetFrameCritical(c)
    \/ \E c \in Consumers : GetFrameReturn(c)

Spec == Init /\ [][Next]_vars

\* Scenario A: the capture thread alone, 20 frames and 4 workers; any other
\* thread may call GetCurrentFrameNumber() in any state.
InitScenarioA ==
    /\ InitCapture({ScenarioWorkers}, ScenarioFrames) /\ InitPlayer({TRUE})
    /\ InitRefCount

NextScenarioA ==
    \/ ArriveNoVideo
    \/ ArriveNoSignal
    \/ ArriveSignal
    \/ ArriveCopyFails
    \/ Dispatch
    \/ \E t \in tasks : TaskConvert(t)
    \/ \E t \in tasks : TaskAdd(t)
    \/ Publish

SpecScenarioA == InitScenarioA /\ [][NextScenarioA]_vars

\* The delegate's reference count alone, used by several threads.
InitRef == InitCapture({1}, 0) /\ InitPlayer({TRUE}) /\ InitRefCount

NextRef ==
    \/ \E h \in Holders : AddRefLocked(h)
    \/ \E h \in Holders : AddRefReturn(h)
    \/ \E h \in Holders : ReleaseLocked(h)
    \/ \E h \in Holders : ReleaseTest(h)
    \/ \E h \in Holders : ReleaseReturn(h)

SpecRef == InitRef /\ [][NextRef]_vars

\* ---------------------------------------------------------------- claims
Returned(c) == consumer[c].pc = "returned"

\* C1: GetFrame(n) returns a non-empty Frame only if the batch containing n
\* has been published (final_frameCount > n when the frame is taken), for
\* every n >= 0 including n = 0.
C1_ReadyOnlyWhenPublished ==
    \A c \in Consumers :
        (Returned(c) /\ consumer[c].f # NoFrame) => consumer[c].published

\* C2: every id below final_frameCount has been inserted into the cache by
\* its conversion task, and is still resident or was removed by a GetFrame.
C2_PublishedWereAdded ==
    \A i \in 0..(final_frameCount - 1) :
        /\ i \in added
        /\ CacheExists(final_frames, i) \/ delivered[i] > 0

C2_Witness ==
    /\ final_frameCount >= 2
    /\ \E i, j \in 0..(final_frameCount - 1) :
         /\ CacheExists(final_frames, i)
         /\ ~CacheExists(final_frames, j) /\ delivered[j] = 1

\* C3: final_frameCount changes only at the end of the parallel region, when
\* every task of the batch is done, by the whole batch size (the queue length
\* at the trigger, which is the worker count) in one step.
C3_PublishWholeBatch ==
    [][final_frameCount' # final_frameCount =>
         /\ prodPc = "barrier"
         /\ BatchDone
         /\ Cardinality(tasks) = numProcs
         /\ number_to_process = numProcs
         /\ final_frameCount' = final_frameCount + numProcs]_vars

C3_Witness == numProcs = 2 /\ final_frameCount = 4

\* C4: once N > 0 signal-bearing frames have all been processed in batches,
\* GetCurrentFrameNumber() = N - 1, every id in [0, N-1] that no GetFrame
\* has asked for yet is in the cache as the frame numbered with that id, and
\* a first GetFrame(i) of a published id returned that frame.
AllBatchesComplete ==
    ~crashed /\ prodPc = "idle" /\ raw_video_frames = <<>> /\ arrived > 0

C4_AllFetchable ==
    /\ AllBatchesComplete =>
         /\ GetCurrentFrameNumber = arrived - 1
         /\ \A i \in 0..(arrived - 1) :
              i \notin attempted =>
                 /\ CacheExists(final_frames, i)
                 /\ CacheGetFrame(final_frames, i) = Frame(i, i)
    /\ \A c \in Consumers :
         (Returned(c) /\ consumer[c].first /\ consumer[c].published) =>
            consumer[c].f = Frame(consumer[c].requested_frame,
                                  consumer[c].requested_frame)

C4_Witness ==
    /\ AllBatchesComplete /\ arrived = 4 /\ numProcs = 2
    /\ \E c \in Consumers :
         /\ Returned(c) /\ ~consumer[c].early /\ consumer[c].first
         /\ consumer[c].f = Frame(3, 3)
    /\ \E i \in 0..3 : i \notin attempted

\* C5: at most one GetFrame(n) per id returns a non-empty Frame, and two
\* calls in flight never hold the same Frame.
C5_ExactlyOneFetch ==
    /\ \A i \in DOMAIN delivered : delivered[i] <= 1
    /\ \A c1, c2 \in Consumers :
         (c1 # c2 /\ Returned(c1) /\ Returned(c2) /\ consumer[c1].f # NoFrame)
            => consumer[c1].f # consumer[c2].f

C5_Witness ==
    \E c1, c2 \in Consumers :
        /\ c1 # c2 /\ Returned(c1) /\ Returned(c2)
        /\ consumer[c1].requested_frame = consumer[c2].requested_frame
        /\ consumer[c1].f # NoFrame /\ consumer[c2].f = NoFrame
        /\ consumer[c2].published

\* C6 as written: with 20 frames and 4 workers GetCurrentFrameNumber()
\* changes only in increments of 4 and is never 5, 6 or 7.
C6_IncrementsOfFour ==
    /\ [](GetCurrentFrameNumber \notin {5, 6, 7})
    /\ [][GetCurrentFrameNumber' # GetCurrentFrameNumber =>
            GetCurrentFrameNumber' = GetCurrentFrameNumber + 4]_vars

\* C6 amended: final_frameCount changes only by the worker count, and
\* GetCurrentFrameNumber() is 0 or the last id of a whole batch (3, 7, 11,
\* 15, 19 with 4 workers): its first change is 0 -> workers - 1, every later
\* one adds the worker count, and it is never at a mid-batch value.
C6_WholeBatchValues ==
    /\ [](\/ GetCurrentFrameNumber = 0
          \/ (GetCurrentFrameNumber + 1) % numProcs = 0)
    /\ [][final_frameCount' # final_frameCount =>
            final_frameCount' = final_frameCount + numProcs]_vars
    /\ [][GetCurrentFrameNumber' # GetCurrentFrameNumber =>
            \/ GetCurrentFrameNumber' = GetCurrentFrameNumber + numProcs
            \/ /\ final_frameCount = 0
               /\ GetCurrentFrameNumber' = numProcs - 1]_vars

C6_Witness ==
    /\ numProcs = 4 /\ arrived = 20 /\ AllBatchesComplete
    /\ GetCurrentFrameNumber = 19

\* C7: a GetFrame(n) call does not leave its wait while
\* GetCurrentFrameNumber() < n, and a call made before the batch of n was
\* published returns frame n (when no other call asked for n before it).
C7_BlocksThenReturnsFrame ==
    \A c \in Consumers :
        /\ consumer[c].pc \in {"critical", "returned"} =>
              consumer[c].requested_frame <= GetCurrentFrameNumber
        /\ (consumer[c].early /\ Returned(c) /\ consumer[c].first) =>
              consumer[c].f = Frame(consumer[c].requested_frame,
                                    consumer[c].requested_frame)

\* C8 as written: Seek(p) with p > 0 sets video_position to p and passes p to
\* the Audio Worker exactly once; Seek(p) with p <= 0 changes nothing and
\* passes nothing.
C8_SeekForwardsPositionOnce ==
    /\ [](seekPc = "returned" =>
            forwarded = IF seekArg > 0 THEN <<seekArg>> ELSE <<>>)
    /\ [][(seekPc = "idle" /\ seekPc' # "idle") =>
            IF seekArg' > 0
            THEN video_position' = seekArg'
            ELSE video_position' = video_position /\ seekPc' = "returned"]_vars

\* C9: a loop iteration that finds speed == 0 leaves video_position alone,
\* asks the Reader for nothing, hands nothing to the Video Render Worker, and
\* goes back to the loop's threadShouldExit() check.
SchedulerStep == runPc' # runPc

C9_PausedTickDoesNothing ==
    [][(runPc = "tick" /\ speed = 0 /\ SchedulerStep) =>
         /\ runPc' = "loop"
         /\ video_position' = video_position
         /\ ticks' = ticks
         /\ UNCHANGED <<request, frame, renderEvent, renderedEvent>>]_vars

C9_Witness ==
    /\ runPc = "loop" /\ speed = 0 /\ ~shouldExit
    /\ pausedTicks = 2
    /\ video_position = request.pos /\ ticks = 1

\* C10: a GetFrameSafe call that throws leaves the loop running and
\* video_position advanced; with no Seek in between, each call asks for the
\* position of the call before plus the speed getFrame() added, and
\* video_position is that position, whether or not either call threw.
C10_FailedFetchKeepsAdvance ==
    [][(runPc = "gf_call" /\ SchedulerStep) =>
         /\ runPc' = "render_signal"
         /\ video_position' = video_position
         /\ request'.clean =>
               /\ request'.pos = request.pos + gfSpeed
               /\ video_position' = request.pos + gfSpeed]_vars

C10_Witness ==
    /\ runPc = "render_signal"
    /\ request.prevFailed /\ request.clean
    /\ request.pos = -2 /\ video_position = -2

\* C11: the render rendezvous ("render ready" signalled, then the wait for
\* "render complete") is made only in a tick that obtained a frame from the
\* Reader.
C11_RendezvousOnlyWithFrame ==
    [][/\ (~renderEvent /\ renderEvent') => frame # NoFrame
       /\ (runPc # "render_wait" /\ runPc' = "render_wait") =>
             frame # NoFrame]_vars

\* C12: the time slept in a non-paused tick is
\* max(base_sleep + diff * nominal_frame_interval, 0) for every sign of diff
\* when the source has audio and video, and max(base_sleep, 0) otherwise,
\* where base_sleep = nominal_frame_interval - elapsed.
Max(a, b) == IF a > b THEN a ELSE b

ClaimedSleep(render_time) ==
    IF has_audio /\ has_video
    THEN Max((FrameTime - render_time) + video_frame_diff * FrameTime, 0)
    ELSE Max(FrameTime - render_time, 0)

C12_ProportionalSleep ==
    [][(runPc = "sleep" /\ SchedulerStep) =>
         \E render_time \in RenderTimes :
            /\ sleep_time' = SleepTime(render_time)
            /\ Max(sleep_time', 0) = ClaimedSleep(render_time)]_vars

\* C13: a callback whose input reports no input source creates no Frame and
\* leaves the raw queue, frameCount, the cache and the published count as
\* they were; it starts no batch conversion.
C13_NoSignalChangesNothing ==
    [][lostSignals' # lostSignals =>
         UNCHANGED <<raw_video_frames, frameCount, final_frames,
                     final_frameCount, number_to_process, prodPc, tasks,
                     arrived, added, crashed>>]_vars

C13_Witness ==
    /\ lostSignals > 0
    /\ raw_video_frames # <<>>
    /\ final_frameCount > 0
    /\ prodPc = "idle"

\* C14: when CreateVideoFrame fails in a conversion task the frame is
\* dropped: no Frame with that sequence number is inserted into the cache,
\* and the other tasks and later batches carry on (the process does not die).
C14_FailedConversionDropsFrame ==
    \A t \in tasks :
        t.res = "E_FAIL" => (~crashed /\ t.copy_frameCount \notin added)

\* C15: a GetFrame(n) that is past the wait and finds no Frame n in the cache
\* returns the empty Frame without failing and leaves the cache, frameCount
\* and the published count as they were; a GetFrame for an identifier that
\* is in the cache still returns that Frame.
C15_MissReturnsEmpty ==
    [][\A c \in Consumers :
         (consumer[c].pc = "critical" /\ consumer'[c].pc = "returned") =>
            LET n == consumer[c].requested_frame
            IN  IF CacheExists(final_frames, n)
                THEN consumer'[c].f = CacheGetFrame(final_frames, n)
                ELSE /\ consumer'[c].f = NoFrame
                     /\ UNCHANGED <<final_frames, frameCount,
                                    final_frameCount, crashed>>]_vars

C15_Witness ==
    \E c, d \in Consumers :
        /\ Returned(c) /\ consumer[c].f = NoFrame
        /\ consumer[c].published
        /\ delivered[consumer[c].requested_frame] > 0
        /\ Returned(d) /\ consumer[d].f # NoFrame
        /\ consumer[d].requested_frame # consumer[c].requested_frame
        /\ final_frames # {}

\* C16: under any interleaving of AddRef and Release the object is destroyed
\* exactly when the count reaches zero and at most once; only the Release
\* whose own decrement brought the count to zero destroys it, and no Release
\* acts on a count that changed after its own decrement.
C16_DestroyedOnceByLastRelease ==
    /\ destroyed <= 1
    /\ \A h \in Holders :
         holder[h].pc = "released" =>
            /\ holder[h].deleted <=> (holder[h].after = 0)
            /\ holder[h].seen = holder[h].after

\* C17: once cancellation is requested the loop leaves at its next per-tick
\* check, with no position advance or frame fetch after that check, and when
\* run() has returned neither the Audio Worker nor the Video Render Worker
\* is still running.
C17_ExitStopsWorkers ==
    /\ [][/\ (runPc = "loop" /\ shouldExit /\ SchedulerStep) => runPc' = "exit"
          /\ runPc \in {"exit", "done"} =>
               UNCHANGED <<ticks, frame, request>>
          /\ (runPc = "exit" /\ SchedulerStep) =>
               UNCHANGED video_position]_vars
    /\ [](runPc = "done" => (~audioRunning /\ ~videoRunning))

\* C18: sequence numbers are given at dispatch in queue order: the k-th
\* signal-bearing frame is held, stored and handed out under the identifier
\* k whatever order the tasks finish in, no identifier belongs to two frames,
\* and the published identifiers are exactly 0 .. final_frameCount - 1.
C18_NumbersFollowArrivalOrder ==
    /\ \A t \in tasks : t.copy_frameCount = t.frame
    /\ \A f \in final_frames : f.number = f.raw
    /\ \A c \in Consumers :
         consumer[c].f # NoFrame => consumer[c].f.number = consumer[c].f.raw
    /\ \A t, u \in tasks : t.copy_frameCount = u.copy_frameCount => t = u
    /\ \A f, g \in final_frames : f.number = g.number => f = g
    /\ added \subseteq 0..(frameCount - 1)
    /\ final_frameCount <= frameCount
    /\ {n \in added : n < final_frameCount} = 0..(final_frameCount - 1)

C18_Witness ==
    /\ final_frameCount > 0
    /\ \E t, u \in tasks :
         /\ t.copy_frameCount < u.copy_frameCount
         /\ t.st = "converted" /\ u.st = "done"
         /\ CacheExists(final_frames, u.copy_frameCount)

\* C19: a Seek(p) with p > 0 made from another thread during playback is
\* never lost: whatever the interleaving with the tick's own position
\* update, the first position requested by a tick that starts after Seek(p)
\* returned is p + speed.
C19_SeekNeverLost ==
    [][(runPc = "gf_call" /\ SchedulerStep /\ intervened.armed # 0) =>
         request'.pos = intervened.armed + gfSpeed]_vars

\* C20: during playback with speed # 0 every tick completes, whatever streams
\* the source has: a scheduler that waits for "render complete" has that
\* signal already, or a running Video Render Worker holds the "render ready"
\* it will answer.
C20_RenderWaitCanEnd ==
    runPc = "render_wait" =>
        (renderedEvent \/ (videoRunning /\ renderEvent))
=============================================================================
